---- MODULE Spec2Model ----
(***************************************************************************)
(* lastfmbucket-bot: the callback-data protocol of the inline buttons      *)
(* (src/src/callbacks.py), the router and the handlers behind it           *)
(* (src/src/commands.py), the views they render (src/src/services.py) and  *)
(* the profile store (src/src/db.py).                                      *)
(*                                                                         *)
(* Python values are modelled as follows.                                  *)
(*   str        a sequence of characters, each a one-character string;     *)
(*              "U+0664" stands for the single character ARABIC-INDIC      *)
(*              DIGIT FOUR (two bytes in UTF-8, a decimal digit to int()). *)
(*   int        arbitrary precision: [neg, digits], digits most            *)
(*              significant first, no leading zeros, zero is <<0>>.        *)
(*   None       the string "None" where a member name is expected, the     *)
(*              record None where an object is expected.                   *)
(*   StrEnum    a member is named by its Python name; its value (the wire  *)
(*              code) is given by ActionValue, EntityValue, PeriodValue.   *)
(*   raise      [kind |-> "Raise", exc |-> <exception class>].             *)
(***************************************************************************)
EXTENDS Integers, Sequences, FiniteSets, TLC

VARIABLES
    input,      \* codec: the value handed to encode or decode
    pc,         \* codec: "start", "encoded", "decoded", "reencoded",
                \*        "adapted"
    encoded,    \* codec: what Callback.encode returned or raised
    decoded,    \* codec: what Callback.decode returned or raised
    reencoded,  \* codec: what Callback.encode returned or raised for decoded
    adapted,    \* adapters: a conversion and the conversion back
    users,      \* the rows of db.User
    lastfm,     \* the Last.fm network: lastfm_username -> listening data
    event,      \* the update handled last, what its handler did and sent
    flights     \* button presses being handled at once, each with its position

codecVars == <<input, pc, encoded, decoded, reencoded, adapted>>
botVars == <<users, lastfm, event, flights>>
vars ==
    <<input, pc, encoded, decoded, reencoded, adapted, users, lastfm, event,
      flights>>

-----------------------------------------------------------------------------
(* Bounds of the model.                                                    *)

\* Most '|'-separated parts of a token handed to decode.
MaxParts == 6

-----------------------------------------------------------------------------
(* callbacks.py: constants and vocabulary.                                 *)

SEP == "|"
VERSION == <<"1">>
CEILING == 64

None == [kind |-> "None"]
Raise(e) == [kind |-> "Raise", exc |-> e]

Action == {"NP_LESS", "NP_LESS_COVER", "NP_MORE", "PREF_UNLINK", "TOPS"}
Entity == {"ARTIST", "ALBUM", "TRACK"}
Period == {"WEEK", "MONTH_1", "MONTH_3", "MONTH_6", "YEAR", "OVERALL"}

ActionValue(a) ==
    CASE a = "NP_LESS" -> <<"n", "l">>
      [] a = "NP_LESS_COVER" -> <<"n", "c">>
      [] a = "NP_MORE" -> <<"n", "m">>
      [] a = "PREF_UNLINK" -> <<"p", "u">>
      [] a = "TOPS" -> <<"t">>

EntityValue(e) ==
    CASE e = "ARTIST" -> <<"a">>
      [] e = "ALBUM" -> <<"b">>
      [] e = "TRACK" -> <<"t">>

PeriodValue(p) ==
    CASE p = "WEEK" -> <<"w">>
      [] p = "MONTH_1" -> <<"1">>
      [] p = "MONTH_3" -> <<"3">>
      [] p = "MONTH_6" -> <<"6">>
      [] p = "YEAR" -> <<"y">>
      [] p = "OVERALL" -> <<"o">>

\* Action(code), Entity(code), Period(code): the member whose value is the
\* code, ValueError when there is none.
ActionOf(code) ==
    IF \E a \in Action : ActionValue(a) = code
    THEN [kind |-> "ok", v |-> CHOOSE a \in Action : ActionValue(a) = code]
    ELSE Raise("ValueError")

EntityOfDefault(code) ==
    IF \E e \in Entity : EntityValue(e) = code
    THEN [kind |-> "ok", v |-> CHOOSE e \in Entity : EntityValue(e) = code]
    ELSE [kind |-> "ok", v |-> "ARTIST"]

EntityOf(code) ==
    IF \E e \in Entity : EntityValue(e) = code
    THEN [kind |-> "ok", v |-> CHOOSE e \in Entity : EntityValue(e) = code]
    ELSE Raise("ValueError")

PeriodOf(code) ==
    IF \E p \in Period : PeriodValue(p) = code
    THEN [kind |-> "ok", v |-> CHOOSE p \in Period : PeriodValue(p) = code]
    ELSE Raise("ValueError")

-----------------------------------------------------------------------------
(* Python built-ins used by the codec: str.split, str.join, str(int),      *)
(* int(str), len(str.encode("utf-8")).                                     *)

DigitChars == <<"0", "1", "2", "3", "4", "5", "6", "7", "8", "9">>
AsciiDigit == {DigitChars[i] : i \in 1..10}
UnicodeDigit == {"U+0664"}

IsDigit(c) == c \in AsciiDigit \cup UnicodeDigit

DigitValue(c) ==
    IF c = "U+0664" THEN 4
    ELSE (CHOOSE i \in 1..10 : DigitChars[i] = c) - 1

\* Bytes of one character in UTF-8.
Utf8Bytes(c) == IF c \in UnicodeDigit THEN 2 ELSE 1

RECURSIVE Utf32Len(_)
Utf32Len(s) == IF s = <<>> THEN 4 ELSE 4 + Utf32Len(Tail(s))

RECURSIVE Utf8Len(_)
Utf8Len(s) == IF s = <<>> THEN 0 ELSE Utf8Bytes(Head(s)) + Utf8Len(Tail(s))

\* data.split(SEP): always at least one part.
RECURSIVE SplitFrom(_, _, _)
SplitFrom(s, cur, acc) ==
    IF s = <<>> THEN Append(acc, cur)
    ELSE IF Head(s) = SEP THEN SplitFrom(Tail(s), <<>>, Append(acc, cur))
    ELSE SplitFrom(Tail(s), Append(cur, Head(s)), acc)

SplitChars(s) == [i \in 1..Len(s) |-> <<s[i]>>]

Split(s) == SplitFrom(s, <<>>, <<>>)

\* SEP.join(parts)
RECURSIVE Join(_)
Join(parts) ==
    IF parts = <<>> THEN <<>>
    ELSE IF Len(parts) = 1 THEN parts[1]
    ELSE parts[1] \o <<SEP>> \o Join(Tail(parts))

Zero == [neg |-> FALSE, digits |-> <<0>>]

\* str(n) for an int n.
PyStrPadded(n) ==
    (IF n.neg THEN <<"-">> ELSE <<>>)
        \o (IF Len(n.digits) < 3
            THEN [i \in 1..(3 - Len(n.digits)) |-> "0"]
            ELSE <<>>)
        \o [i \in 1..Len(n.digits) |-> DigitChars[n.digits[i] + 1]]

PyStr(n) ==
    (IF n.neg THEN <<"-">> ELSE <<>>)
        \o [i \in 1..Len(n.digits) |-> DigitChars[n.digits[i] + 1]]

RECURSIVE StripLeft(_)
StripLeft(s) ==
    IF s # <<>> /\ Head(s) = " " THEN StripLeft(Tail(s)) ELSE s

RECURSIVE StripRight(_)
StripRight(s) ==
    IF s # <<>> /\ s[Len(s)] = " " THEN StripRight(SubSeq(s, 1, Len(s) - 1))
    ELSE s

RECURSIVE DropZeros(_)
DropZeros(d) ==
    IF Len(d) > 1 /\ Head(d) = 0 THEN DropZeros(Tail(d)) ELSE d

\* The body of a decimal literal after the sign: digits, with single
\* underscores allowed between two digits.
WellFormedDigits(s) ==
    /\ s # <<>>
    /\ \A i \in 1..Len(s) :
        \/ IsDigit(s[i])
        \/ /\ s[i] = "_"
           /\ i > 1 /\ i < Len(s)
           /\ IsDigit(s[i - 1]) /\ IsDigit(s[i + 1])

RECURSIVE DigitsOf(_)
DigitsOf(s) ==
    IF s = <<>> THEN <<>>
    ELSE IF Head(s) = "_" THEN DigitsOf(Tail(s))
    ELSE <<DigitValue(Head(s))>> \o DigitsOf(Tail(s))

\* int(s): surrounding whitespace, an optional sign, leading zeros, single
\* underscores and any Unicode decimal digit are accepted; everything else
\* raises ValueError.
PyIntUnsigned(s) ==
    LET t == StripRight(StripLeft(s))
        signed == t # <<>> /\ Head(t) \in {"+", "-"}
        body == IF signed THEN Tail(t) ELSE t
    IN  IF ~WellFormedDigits(body) THEN Raise("ValueError")
        ELSE [kind |-> "ok",
              v |-> [neg |-> FALSE, digits |-> DropZeros(DigitsOf(body))]]

PyInt(s) ==
    LET t == StripRight(StripLeft(s))
        signed == t # <<>> /\ Head(t) \in {"+", "-"}
        body == IF signed THEN Tail(t) ELSE t
    IN  IF ~WellFormedDigits(body) THEN Raise("ValueError")
        ELSE LET d == DropZeros(DigitsOf(body))
             IN  [kind |-> "ok",
                  v |-> [neg |-> signed /\ Head(t) = "-" /\ d # <<0>>,
                         digits |-> d]]

\* bool(x) for a str, an int and an optional StrEnum member.
TruthyStr(s) == s # <<>>
TruthyInt(n) == n # Zero

\* a < b for ints.
RECURSIVE LexLess(_, _)
LexLess(a, b) ==
    IF a = <<>> THEN FALSE
    ELSE IF Head(a) # Head(b) THEN Head(a) < Head(b)
    ELSE LexLess(Tail(a), Tail(b))

MagLess(a, b) ==
    \/ Len(a) < Len(b)
    \/ Len(a) = Len(b) /\ LexLess(a, b)

IntLess(a, b) ==
    IF a.neg /\ ~b.neg THEN TRUE
    ELSE IF ~a.neg /\ b.neg THEN FALSE
    ELSE IF a.neg THEN MagLess(b.digits, a.digits)
    ELSE MagLess(a.digits, b.digits)

-----------------------------------------------------------------------------
(* callbacks.py: the Callback dataclass and its codec.                     *)

Callback(a, o, e, p) ==
    [kind |-> "Callback", action |-> a, owner_id |-> o, entity |-> e,
     period |-> p]

\* len(encoded.encode("utf-8"))
ByteLenUtf32(s) == Utf32Len(s)

ByteLen(s) == Utf8Len(s)

\* The five parts of encode joined by SEP, before the length assertion.
Serialized(cb) ==
    Join(<<VERSION,
           ActionValue(cb.action),
           PyStr(cb.owner_id),
           IF cb.entity # "None" THEN EntityValue(cb.entity) ELSE <<>>,
           IF cb.period # "None" THEN PeriodValue(cb.period) ELSE <<>> >>)

\* Callback.encode
EncodeNoAssert(cb) == [kind |-> "str", v |-> Serialized(cb)]

EncodeSkipEmpty(cb) ==
    LET enc == Join(SelectSeq(<<VERSION,
                   ActionValue(cb.action),
                   PyStr(cb.owner_id),
                   IF cb.entity # "None" THEN EntityValue(cb.entity) ELSE <<>>,
                   IF cb.period # "None" THEN PeriodValue(cb.period) ELSE <<>> >>,
                 TruthyStr))
    IN  IF ByteLen(enc) <= CEILING THEN [kind |-> "str", v |-> enc]
        ELSE Raise("AssertionError")

EncodeStrictCeiling(cb) ==
    LET enc == Serialized(cb)
    IN  IF ByteLen(enc) < CEILING THEN [kind |-> "str", v |-> enc]
        ELSE Raise("AssertionError")

Encode(cb) ==
    LET enc == Serialized(cb)
    IN  IF ByteLen(enc) <= CEILING THEN [kind |-> "str", v |-> enc]
        ELSE Raise("AssertionError")

\* The exception classes of decode's except clause.
DecodeCaughtIndexOnly == {"IndexError"}

DecodeCaught == {"ValueError", "IndexError"}

\* parts[i] of a Python list (i counted from 0).
Item(parts, i) ==
    IF i < Len(parts) THEN [kind |-> "ok", v |-> parts[i + 1]]
    ELSE Raise("IndexError")

\* version != VERSION, negated
VersionMatchesNumeric(version) ==
    PyInt(version).kind = "ok" /\ PyInt(version) = PyInt(VERSION)

VersionMatches(version) == version = VERSION

\* entity = Entity(parts[3]) if len(parts) > 3 and parts[3] else None
DecodeEntity(parts) ==
    IF Len(parts) > 3 /\ TruthyStr(Item(parts, 3).v)
    THEN EntityOf(Item(parts, 3).v)
    ELSE [kind |-> "ok", v |-> "None"]

\* period = Period(parts[4]) if len(parts) > 4 and parts[4] else None
DecodePeriodNeedsEntity(parts) ==
    IF Len(parts) > 4 /\ TruthyStr(Item(parts, 3).v)
    THEN PeriodOf(Item(parts, 4).v)
    ELSE [kind |-> "ok", v |-> "None"]

DecodePeriodLast(parts) ==
    IF Len(parts) > 4 /\ TruthyStr(parts[Len(parts)])
    THEN PeriodOf(parts[Len(parts)])
    ELSE [kind |-> "ok", v |-> "None"]

DecodePeriod(parts) ==
    IF Len(parts) > 4 /\ TruthyStr(Item(parts, 4).v)
    THEN PeriodOf(Item(parts, 4).v)
    ELSE [kind |-> "ok", v |-> "None"]

\* The try block of Callback.decode; the first statement that raises ends it.
DecodeTry(data) ==
    LET parts == Split(data) IN
    IF Len(parts) < 3 THEN None
    ELSE IF ~VersionMatches(Item(parts, 0).v) THEN None
    ELSE
      LET action == ActionOf(Item(parts, 1).v)
          owner == PyInt(Item(parts, 2).v)
          entity == DecodeEntity(parts)
          period == DecodePeriod(parts)
      IN  IF action.kind = "Raise" THEN action
          ELSE IF owner.kind = "Raise" THEN owner
          ELSE IF entity.kind = "Raise" THEN entity
          ELSE IF period.kind = "Raise" THEN period
          ELSE Callback(action.v, owner.v, entity.v, period.v)

\* Callback.decode
Decode(data) ==
    LET r == DecodeTry(data)
    IN  IF r.kind = "Raise" /\ r.exc \in DecodeCaught THEN None ELSE r

-----------------------------------------------------------------------------
(* The values the codec is exercised on.                                   *)

IntOf(d) == [neg |-> FALSE, digits |-> d]
NegOf(d) == [neg |-> TRUE, digits |-> d]

\* 2^63 - 1, the largest value of db.User.telegram_id (BigIntegerField).
MaxBigInt == IntOf(<<9, 2, 2, 3, 3, 7, 2, 0, 3, 6, 8, 5, 4, 7, 7, 5, 8, 0, 7>>)
TwoTo63 == IntOf(<<9, 2, 2, 3, 3, 7, 2, 0, 3, 6, 8, 5, 4, 7, 7, 5, 8, 0, 8>>)

\* 10^(n-1), the smallest int of n digits.
PowerOfTen(n) == IntOf([i \in 1..n |-> IF i = 1 THEN 1 ELSE 0])

OwnerIds ==
    {Zero, IntOf(<<5>>), IntOf(<<4, 2>>), IntOf(<<1, 2, 3, 4, 5, 6, 7, 8, 9>>),
     MaxBigInt, TwoTo63, PowerOfTen(55), PowerOfTen(56), NegOf(<<5>>)}

Requests ==
    {Callback(a, o, e, p) : a \in Action, o \in OwnerIds,
                            e \in Entity \cup {"None"},
                            p \in Period \cup {"None"}}

VersionPool == {<<"1">>, <<"2">>, <<"0", "1">>, <<>>}
ActionPool ==
    {<<"n", "l">>, <<"n", "c">>, <<"n", "m">>, <<"p", "u">>, <<"t">>,
     <<"x">>, <<>>}
OwnerPool ==
    {<<"4", "2">>, <<"0">>, <<"-", "5">>, <<"a", "b", "c">>, <<>>,
     <<" ", "7">>, <<"0", "0", "7">>, <<"1", "_", "0">>, <<"U+0664", "2">>}
EntityPool == {<<"a">>, <<"b">>, <<"t">>, <<"z">>, <<>>}
PeriodPool ==
    {<<"w">>, <<"1">>, <<"6">>, <<"o">>, <<"q">>, <<>>}
ExtraPool == {<<"e", "x", "t", "r", "a">>, <<>>}

FieldPool(i) ==
    CASE i = 1 -> VersionPool
      [] i = 2 -> ActionPool
      [] i = 3 -> OwnerPool
      [] i = 4 -> EntityPool
      [] i = 5 -> PeriodPool
      [] OTHER -> ExtraPool

RECURSIVE PartSeqs(_)
PartSeqs(n) ==
    IF n = 0 THEN {<<>>}
    ELSE {Append(ps, f) : ps \in PartSeqs(n - 1), f \in FieldPool(n)}

\* Tokens of exactly 64 bytes with three, four and five parts.
LongTokens ==
    {Join(<<VERSION, <<"t">>, PyStr(PowerOfTen(60))>>),
     Join(<<VERSION, <<"t">>, PyStr(PowerOfTen(58)), <<"a">> >>),
     Join(<<VERSION, <<"t">>, PyStr(PowerOfTen(56)), <<"a">>, <<"w">> >>)}

\* Tokens with no separator and with the fields in another order.
OddTokens ==
    {<<"1", "t", "4">>,
     <<"n", "l", "|", "1", "|", "4", "2", "|", "|">>,
     <<"1", "|", "4", "2", "|", "n", "l", "|", "|">>,
     <<"1", "|", "t", "|", "4", "2", "|", "w", "|", "a">>}

TokensOf(m) ==
    {Join(ps) : ps \in UNION {PartSeqs(n) : n \in 0..m}}
        \cup OddTokens \cup LongTokens

\* What the adapters are exercised on: a request with each optional entity
\* and period, and each pair of the provider's members.
WireInputs ==
    {[kind |-> "wire", cb |-> Callback("TOPS", IntOf(<<4, 2>>), e, p)] :
        e \in Entity \cup {"None"}, p \in Period \cup {"None"}}

ProviderInputs ==
    {[kind |-> "provider", entity_type |-> x, period |-> q] :
        x \in {"artist", "album", "track"},
        q \in {"overall", "7day", "1month", "3month", "6month", "12month"}}

InputsOf(m) ==
    {[kind |-> "request", cb |-> r] : r \in Requests}
        \cup {[kind |-> "token", data |-> t] : t \in TokensOf(m)}
        \cup WireInputs \cup ProviderInputs

-----------------------------------------------------------------------------
(* lastfm.py: the provider's enumerations (members named by their values)  *)
(* and the adapters of callbacks.py between them and the wire enumerations.*)

EntityType == {"artist", "album", "track"}
LastfmPeriod == {"overall", "7day", "1month", "3month", "6month", "12month"}

\* Callback.to_lastfm_entity: None for None, else mapping.get(self.entity)
ToLastfmEntityOfArtistOnly(cb) ==
    IF cb.entity = "ARTIST" THEN "artist" ELSE "None"

ToLastfmEntity(cb) ==
    CASE cb.entity = "None" -> "None"
      [] cb.entity = "ARTIST" -> "artist"
      [] cb.entity = "ALBUM" -> "album"
      [] cb.entity = "TRACK" -> "track"
      [] OTHER -> "None"

\* Callback.to_lastfm_period
ToLastfmPeriodCopied(cb) ==
    CASE cb.period = "None" -> "None"
      [] cb.period = "WEEK" -> "7day"
      [] cb.period = "MONTH_1" -> "1month"
      [] cb.period = "MONTH_3" -> "3month"
      [] cb.period = "MONTH_6" -> "3month"
      [] cb.period = "YEAR" -> "12month"
      [] cb.period = "OVERALL" -> "overall"
      [] OTHER -> "None"

ToLastfmPeriod(cb) ==
    CASE cb.period = "None" -> "None"
      [] cb.period = "WEEK" -> "7day"
      [] cb.period = "MONTH_1" -> "1month"
      [] cb.period = "MONTH_3" -> "3month"
      [] cb.period = "MONTH_6" -> "6month"
      [] cb.period = "YEAR" -> "12month"
      [] cb.period = "OVERALL" -> "overall"
      [] OTHER -> "None"

\* entity_from_lastfm: mapping[entity_type], KeyError for a missing key
EntityFromLastfm(t) ==
    CASE t = "artist" -> [kind |-> "ok", v |-> "ARTIST"]
      [] t = "album" -> [kind |-> "ok", v |-> "ALBUM"]
      [] t = "track" -> [kind |-> "ok", v |-> "TRACK"]
      [] OTHER -> Raise("KeyError")

\* period_from_lastfm
PeriodFromLastfm(p) ==
    CASE p = "7day" -> [kind |-> "ok", v |-> "WEEK"]
      [] p = "1month" -> [kind |-> "ok", v |-> "MONTH_1"]
      [] p = "3month" -> [kind |-> "ok", v |-> "MONTH_3"]
      [] p = "6month" -> [kind |-> "ok", v |-> "MONTH_6"]
      [] p = "12month" -> [kind |-> "ok", v |-> "YEAR"]
      [] p = "overall" -> [kind |-> "ok", v |-> "OVERALL"]
      [] OTHER -> Raise("KeyError")

-----------------------------------------------------------------------------
(* The world of the bot: Telegram users, Last.fm accounts, the User table. *)

\* Telegram users who write to the bot and press buttons; ids are positive.
\* account is the Last.fm username the user gives to /set.
Ann == [id |-> IntOf(<<7>>), username |-> "ann", account |-> "alice"]
Bob == [id |-> IntOf(<<4, 2>>), username |-> "bob", account |-> "rj"]
TelegramUsers == {Ann, Bob}

LastfmNames == {u.account : u \in TelegramUsers}

\* What Last.fm holds for an account: nothing scrobbled, tracks played but
\* nothing playing, a track playing now, or a track playing now whose album
\* has no cover image.
Listening == {"silent", "played", "playing", "playing_nocover"}

\* str() of the one-element tuple create_or_update_user stores on update.
TupleStr(name) == "('" \o name \o "',)"

\* db.get_user: User.get_or_none(telegram_id=...)
GetUser(U, id) ==
    IF \E r \in U : r.telegram_id = id
    THEN CHOOSE r \in U : r.telegram_id = id
    ELSE None

\* db.delete_user
DeleteUser(U, id) == {r \in U : r.telegram_id # id}

\* db.create_or_update_user
CreateOrUpdateUser(U, id, telegram_username, lastfm_username) ==
    IF \E r \in U : r.telegram_id = id
    THEN {r \in U : r.telegram_id # id}
            \cup {[kind |-> "User", telegram_id |-> id,
                   telegram_username |-> TupleStr(telegram_username),
                   lastfm_username |-> lastfm_username]}
    ELSE U \cup {[kind |-> "User", telegram_id |-> id,
                  telegram_username |-> telegram_username,
                  lastfm_username |-> lastfm_username]}

\* LastfmClient.get_now_playing
ClientNowPlaying(L, name) ==
    IF L[name] \in {"playing", "playing_nocover"}
    THEN [kind |-> "Track", of |-> name]
    ELSE None

\* track.get_album().get_cover_image() of the account's latest track
ClientCover(L, name) ==
    IF L[name] \in {"played", "playing"} THEN "cover of " \o name ELSE "None"

\* LastfmClient.get_recent_tracks: a list of PlayedTrack
ClientRecentTracks(L, name) ==
    CASE L[name] = "silent" -> <<>>
      [] L[name] = "played" -> <<[of |-> name, timestamp |-> TRUE]>>
      [] OTHER -> <<[of |-> name, timestamp |-> FALSE],
                    [of |-> name, timestamp |-> TRUE]>>

\* get_top_artists / get_top_albums / get_top_tracks of the account
ClientTops(L, name, entity_type, period) ==
    IF L[name] = "silent" THEN <<>>
    ELSE <<[of |-> name, entity |-> entity_type, period |-> period]>>

\* LastfmService.get_now_playing
GetNowPlayingOfOwnAccount(U, L, id) ==
    LET user == GetUser(U, id)
        own == {u.account : u \in {t \in TelegramUsers : t.id = id}}
        name == IF own = {} THEN user.lastfm_username ELSE CHOOSE n \in own : TRUE
    IN  IF user = None THEN [user |-> None, track |-> None]
        ELSE [user |-> [user EXCEPT !.lastfm_username = name],
              track |-> ClientNowPlaying(L, name)]

GetNowPlaying(U, L, id) ==
    LET user == GetUser(U, id)
    IN  IF user = None THEN [user |-> None, track |-> None]
        ELSE [user |-> user, track |-> ClientNowPlaying(L, user.lastfm_username)]

\* LastfmService.get_recent_tracks: None without a user
GetRecentTracks(U, L, id) ==
    LET user == GetUser(U, id)
    IN  IF user = None THEN [kind |-> "None"]
        ELSE [kind |-> "list", v |-> ClientRecentTracks(L, user.lastfm_username)]

\* LastfmService.get_tops: None without a user
GetTops(U, L, id, entity_type, period) ==
    LET user == GetUser(U, id)
    IN  IF user = None THEN [kind |-> "None"]
        ELSE IF entity_type \in EntityType
        THEN [kind |-> "list",
              v |-> ClientTops(L, user.lastfm_username, entity_type, period)]
        ELSE [kind |-> "None"]

-----------------------------------------------------------------------------
(* services.py: ViewService. A view is the template of responses.py with   *)
(* its arguments, the callback_data of its buttons in keyboard order, and  *)
(* the cover URL; exc names the exception that ended the builder.          *)

Rendered(template, args, buttons, cover) ==
    [exc |-> "None", template |-> template, args |-> args,
     buttons |-> buttons, cover |-> cover]

Failed(e) ==
    [exc |-> e, template |-> "None", args |-> <<>>, buttons |-> <<>>,
     cover |-> "None"]

\* Callback(...).encode() for each button of a keyboard; the first
\* AssertionError ends the builder.
EncodeAll(cbs) ==
    LET encs == [i \in 1..Len(cbs) |-> Encode(cbs[i])]
    IN  IF \E i \in 1..Len(cbs) : encs[i].kind = "Raise"
        THEN Raise("AssertionError")
        ELSE [kind |-> "ok", v |-> [i \in 1..Len(cbs) |-> encs[i].v]]

\* ViewService.build_np_response
BuildNpResponse(U, L, id, show_cover) ==
    LET np == GetNowPlaying(U, L, id)
    IN  IF np.user = None
        THEN Rendered("user_not_found", <<>>, <<>>, "None")
        ELSE IF np.track = None
        THEN Rendered("now_playing_no_currently_playing",
                      <<np.user.lastfm_username>>, <<>>, "None")
        ELSE
          LET keys == (IF ~show_cover
                       THEN <<Callback("NP_LESS_COVER", id, "None", "None")>>
                       ELSE <<>>)
                      \o <<Callback("NP_MORE", id, "None", "None")>>
              encs == EncodeAll(keys)
          IN  IF encs.kind = "Raise" THEN Failed(encs.exc)
              ELSE Rendered("now_playing",
                            <<np.user.lastfm_username, np.track.of>>,
                            encs.v,
                            IF show_cover
                            THEN ClientCover(L, np.user.lastfm_username)
                            ELSE "None")

\* One line of recent_tracks_list.
RecentLine(played) ==
    (IF played.timestamp THEN "ago " ELSE "now ") \o played.of

\* ViewService.build_status_response
BuildStatusResponse(U, L, id, show_cover) ==
    LET recent == GetRecentTracks(U, L, id)
        user == GetUser(U, id)
    IN  IF recent.kind = "None" \/ recent.v = <<>> \/ user = None
        THEN Rendered("user_not_found", <<>>, <<>>, "None")
        ELSE
          LET less == IF ~show_cover THEN "NP_LESS" ELSE "NP_LESS_COVER"
              keys == (IF ~show_cover
                       THEN <<Callback("NP_MORE", id, "None", "None")>>
                       ELSE <<>>)
                      \o <<Callback(less, id, "None", "None")>>
              encs == EncodeAll(keys)
              first_name == IF user.telegram_username # ""
                            THEN user.telegram_username
                            ELSE user.lastfm_username
          IN  IF encs.kind = "Raise" THEN Failed(encs.exc)
              ELSE Rendered("recent_tracks",
                            <<first_name>>
                                \o [i \in 1..Len(recent.v) |-> RecentLine(recent.v[i])],
                            encs.v,
                            IF show_cover
                            THEN ClientCover(L, user.lastfm_username)
                            ELSE "None")

\* period_display_map of build_tops_response
PeriodName(period) ==
    CASE period = "7day" -> "1week"
      [] period = "1month" -> "1month"
      [] period = "3month" -> "3month"
      [] period = "6month" -> "6month"
      [] period = "12month" -> "1year"
      [] period = "overall" -> "alltime"

\* The keys of period_display, in the order the dict is iterated.
PeriodButtonsShort == <<"WEEK", "MONTH_1", "MONTH_3">>

PeriodButtons == <<"WEEK", "MONTH_1", "MONTH_3", "MONTH_6", "YEAR", "OVERALL">>

\* ViewService.build_tops_response; entity_type and period are "None" or a
\* member of the provider's enumerations.
BuildTopsResponse(U, L, id, entity_type, period) ==
    IF entity_type = "None"
    THEN LET encs == EncodeAll(<<Callback("TOPS", id, "ARTIST", "None"),
                                 Callback("TOPS", id, "ALBUM", "None"),
                                 Callback("TOPS", id, "TRACK", "None")>>)
         IN  IF encs.kind = "Raise" THEN Failed(encs.exc)
             ELSE Rendered("tops_choose_entity_type", <<>>, encs.v, "None")
    ELSE IF period = "None"
    THEN LET cb_entity == EntityFromLastfm(entity_type)
             encs == EncodeAll([i \in 1..Len(PeriodButtons) |->
                         Callback("TOPS", id, cb_entity.v, PeriodButtons[i])])
         IN  IF cb_entity.kind = "Raise" THEN Failed(cb_entity.exc)
             ELSE IF encs.kind = "Raise" THEN Failed(encs.exc)
             ELSE Rendered("tops_choose_period", <<entity_type>>, encs.v, "None")
    ELSE LET tops == GetTops(U, L, id, entity_type, period)
             user == GetUser(U, id)
         IN  IF tops.kind = "None" \/ tops.v = <<>>
             THEN IF user = None THEN Failed("AttributeError")
                  ELSE Rendered("tops_no_available_response",
                                <<user.lastfm_username>>, <<>>, "None")
             ELSE Rendered("tops_list",
                           <<entity_type, PeriodName(period), user.lastfm_username>>
                               \o [i \in 1..Len(tops.v) |-> tops.v[i].of],
                           <<>>, "None")

\* ViewService.build_preferences_response
BuildPreferencesResponse(id) ==
    LET encs == EncodeAll(<<Callback("PREF_UNLINK", id, "None", "None")>>)
    IN  IF encs.kind = "Raise" THEN Failed(encs.exc)
        ELSE Rendered("preferences", <<>>, encs.v, "None")

\* ViewService.build_preferences_unlink_account_response: the text; the
\* store effect is LastfmService.unlink_user = DeleteUser.
BuildPreferencesUnlinkAccountResponse ==
    Rendered("preferences_unlink_account", <<>>, <<>>, "None")

-----------------------------------------------------------------------------
(* commands.py: the handlers. Each returns what it did: the ids it handed  *)
(* to the store, the store afterwards, the exception that ended it, the    *)
(* Telegram method it called and the view it sent; invoked lists the       *)
(* entries of CALLBACK_ROUTES that were called, each with its argument,    *)
(* and provider the queries made to Last.fm.                               *)

Did(handler, ids, U, exc, method, r) ==
    [handler |-> handler, ids |-> ids, users |-> U, exc |-> exc,
     method |-> method, template |-> r.template, args |-> r.args,
     buttons |-> r.buttons, media |-> r.cover, invoked |-> <<>>,
     provider |-> {}]

\* The query a LastfmService method makes for telegram user id: none when
\* db.get_user finds no row.
Asked(U, id, query) == IF GetUser(U, id) # None THEN {query} ELSE {}

NoView == Rendered("None", <<>>, <<>>, "None")

\* `telegram_user_id or update.message.from_user.id`: a callback-query
\* update has no message, so the right operand raises AttributeError there.
UserIdOfSender(from_button, sender, telegram_user_id) ==
    [kind |-> "ok", v |-> sender.id]

UserIdOrMessageSender(from_button, sender, telegram_user_id) ==
    IF telegram_user_id # None /\ TruthyInt(telegram_user_id)
    THEN [kind |-> "ok", v |-> telegram_user_id]
    ELSE IF from_button THEN Raise("AttributeError")
    ELSE [kind |-> "ok", v |-> sender.id]

\* `telegram_user_id or query.from_user.id`
UserIdOrPresser(sender, telegram_user_id) ==
    IF telegram_user_id # None /\ TruthyInt(telegram_user_id)
    THEN telegram_user_id
    ELSE sender.id

\* The Bot API refuses editMessageMedia without media (BadRequest).
EditMedia(media) == IF media = "None" THEN "BadRequest" ELSE "None"

\* now_playing
NowPlaying(h, from_button, sender, show_cover, telegram_user_id, U, L) ==
    LET user_id == UserIdOrMessageSender(from_button, sender, telegram_user_id)
        r == BuildNpResponse(U, L, user_id.v, show_cover)
        d == IF r.exc # "None" THEN Did(h, {user_id.v}, U, r.exc, "None", NoView)
             ELSE IF from_button /\ show_cover /\ r.cover # "None"
             THEN Did(h, {user_id.v}, U, EditMedia(r.cover), "edit_media", r)
             ELSE Did(h, {user_id.v}, U, "None", "reply_html", r)
    IN  IF user_id.kind = "Raise" THEN Did(h, {}, U, user_id.exc, "None", NoView)
        ELSE [d EXCEPT !.provider = Asked(U, user_id.v, "get_now_playing")]

\* status
Status(h, from_button, sender, show_cover, telegram_user_id, U, L) ==
    LET user_id == UserIdOrMessageSender(from_button, sender, telegram_user_id)
        r == BuildStatusResponse(U, L, user_id.v, show_cover)
        d == IF r.exc # "None" THEN Did(h, {user_id.v}, U, r.exc, "None", NoView)
             ELSE IF from_button /\ show_cover
             THEN Did(h, {user_id.v}, U, EditMedia(r.cover), "edit_media", r)
             ELSE Did(h, {user_id.v}, U, "None", "reply_html", r)
    IN  IF user_id.kind = "Raise" THEN Did(h, {}, U, user_id.exc, "None", NoView)
        ELSE [d EXCEPT !.provider = Asked(U, user_id.v, "get_recent_tracks")]

\* _parse_tops_args
ParseTopsArgs(args) ==
    LET entity_type ==
            IF Len(args) = 0 THEN "None"
            ELSE CASE args[1] \in {"artists", "artist"} -> "artist"
                   [] args[1] \in {"albums", "album"} -> "album"
                   [] args[1] \in {"tracks", "track"} -> "track"
                   [] OTHER -> "None"
        period ==
            IF Len(args) <= 1 THEN "None"
            ELSE CASE args[2] \in {"1week", "week"} -> "7day"
                   [] args[2] \in {"1month", "month"} -> "1month"
                   [] args[2] \in {"3months", "3month"} -> "3month"
                   [] args[2] \in {"6months", "6month"} -> "6month"
                   [] args[2] \in {"12months", "12month", "year"} -> "12month"
                   [] args[2] \in {"overall", "alltime"} -> "overall"
                   [] OTHER -> "None"
    IN  [entity_type |-> entity_type, period |-> period]

\* tops
Tops(h, from_button, sender, telegram_user_id, entity_type, period, args, U, L) ==
    LET user_id == IF from_button THEN telegram_user_id ELSE sender.id
        parsed == IF ~from_button /\ Len(args) > 0 THEN ParseTopsArgs(args)
                  ELSE [entity_type |-> entity_type, period |-> period]
        r == BuildTopsResponse(U, L, user_id, parsed.entity_type, parsed.period)
        last == parsed.entity_type # "None" /\ parsed.period # "None"
        ids == IF last THEN {user_id} ELSE {}
        d == IF r.exc # "None" THEN Did(h, ids, U, r.exc, "None", NoView)
             ELSE IF from_button THEN Did(h, ids, U, "None", "edit_text", r)
             ELSE Did(h, ids, U, "None", "reply_html", r)
    IN  [d EXCEPT !.provider = IF last THEN Asked(U, user_id, "get_top_items")
                                ELSE {}]

\* unlink_account
UnlinkAccount(h, sender, telegram_user_id, U) ==
    LET user_id == UserIdOrPresser(sender, telegram_user_id)
    IN  Did(h, {user_id}, DeleteUser(U, user_id), "None", "edit_message_text",
            BuildPreferencesUnlinkAccountResponse)

\* CALLBACK_ROUTES
CallbackRoutesNoUnlink ==
    [a \in Action \ {"PREF_UNLINK"} |->
        CASE a = "NP_LESS" -> "_handle_np_less"
          [] a = "NP_LESS_COVER" -> "_handle_np_less_cover"
          [] a = "NP_MORE" -> "_handle_np_more"
          [] a = "TOPS" -> "_handle_tops"]

CALLBACK_ROUTES ==
    [a \in Action |->
        CASE a = "NP_LESS" -> "_handle_np_less"
          [] a = "NP_LESS_COVER" -> "_handle_np_less_cover"
          [] a = "NP_MORE" -> "_handle_np_more"
          [] a = "PREF_UNLINK" -> "_handle_pref_unlink"
          [] a = "TOPS" -> "_handle_tops"]

\* CALLBACK_ROUTES.get(cb.action)
RouteOfCoverless(action) ==
    IF action = "NP_LESS_COVER" THEN CALLBACK_ROUTES["NP_LESS"]
    ELSE IF action \in DOMAIN CALLBACK_ROUTES THEN CALLBACK_ROUTES[action]
    ELSE "None"

RouteOf(action) ==
    IF action \in DOMAIN CALLBACK_ROUTES THEN CALLBACK_ROUTES[action] ELSE "None"

\* _handle_np_less, _handle_np_less_cover, _handle_np_more,
\* _handle_pref_unlink, _handle_tops
HandleCoverByEntity(h, sender, cb, U, L) ==
  LET d ==
    CASE h = "_handle_np_less" ->
            NowPlaying(h, TRUE, sender, cb.entity # "None", cb.owner_id, U, L)
      [] h = "_handle_np_less_cover" ->
            NowPlaying(h, TRUE, sender, TRUE, cb.owner_id, U, L)
      [] h = "_handle_np_more" ->
            Status(h, TRUE, sender, TRUE, cb.owner_id, U, L)
      [] h = "_handle_pref_unlink" ->
            UnlinkAccount(h, sender, cb.owner_id, U)
      [] h = "_handle_tops" ->
            Tops(h, TRUE, sender, cb.owner_id, ToLastfmEntity(cb),
                 ToLastfmPeriod(cb), <<>>, U, L)
  IN  [d EXCEPT !.invoked = <<[handler |-> h, cb |-> cb]>>]

Handle(h, sender, cb, U, L) ==
  LET d ==
    CASE h = "_handle_np_less" ->
            NowPlaying(h, TRUE, sender, FALSE, cb.owner_id, U, L)
      [] h = "_handle_np_less_cover" ->
            NowPlaying(h, TRUE, sender, TRUE, cb.owner_id, U, L)
      [] h = "_handle_np_more" ->
            Status(h, TRUE, sender, TRUE, cb.owner_id, U, L)
      [] h = "_handle_pref_unlink" ->
            UnlinkAccount(h, sender, cb.owner_id, U)
      [] h = "_handle_tops" ->
            Tops(h, TRUE, sender, cb.owner_id, ToLastfmEntity(cb),
                 ToLastfmPeriod(cb), <<>>, U, L)
  IN  [d EXCEPT !.invoked = <<[handler |-> h, cb |-> cb]>>]

\* button_handler: query.answer(), decode, route, handle.
ButtonHandlerReportsInvalid(sender, data, U, L) ==
    LET cb == Decode(data)
    IN  IF cb.kind = "Raise" THEN Did("None", {}, U, cb.exc, "None", NoView)
        ELSE IF cb = None
        THEN Did("None", {}, U, "None", "edit_message_text",
                 Rendered("invalid_callback", <<>>, <<>>, "None"))
        ELSE IF RouteOf(cb.action) = "None"
        THEN Did("None", {}, U, "None", "None", NoView)
        ELSE Handle(RouteOf(cb.action), sender, cb, U, L)

ButtonHandler(sender, data, U, L) ==
    LET cb == Decode(data)
    IN  IF cb.kind = "Raise" THEN Did("None", {}, U, cb.exc, "None", NoView)
        ELSE IF cb = None THEN Did("None", {}, U, "None", "None", NoView)
        ELSE IF RouteOf(cb.action) = "None"
        THEN Did("None", {}, U, "None", "None", NoView)
        ELSE Handle(RouteOf(cb.action), sender, cb, U, L)

-----------------------------------------------------------------------------
(* The bot: updates arrive one at a time (bot.py builds the application    *)
(* without concurrent updates) and each is handled to its end.             *)

\* A token of five fields.
Token(action, owner, entity, period) ==
    Join(<<VERSION, action, owner, entity, period>>)

\* Tokens of buttons no longer on the latest message, or never issued.
StaleTokens ==
    {Token(<<"p", "u">>, <<"0">>, <<>>, <<>>),
     Token(<<"p", "u">>, <<"7">>, <<>>, <<>>),
     Token(<<"n", "l">>, <<"0">>, <<>>, <<>>),
     Token(<<"n", "m">>, <<"9", "9">>, <<>>, <<>>),
     Token(<<"n", "c">>, <<"4", "2">>, <<"a">>, <<"w">>),
     Token(<<"t">>, <<"9", "9">>, <<"a">>, <<"w">>),
     <<"2", "|", "t", "|", "7", "|", "a", "|", "w">>,
     <<"1", "|", "p", "u", "|", "a", "b", "c">>,
     <<>>}

SetArgs(sender) == {<<>>, <<sender.account>>}
TopsArgs == {<<>>, <<"tracks">>, <<"albums", "week">>}

InitBot ==
    /\ users = {}
    /\ lastfm = [n \in LastfmNames |-> "silent"]
    /\ event = [kind |-> "start", exc |-> "None", buttons |-> <<>>]
    /\ flights = <<>>

IdleCodec ==
    /\ input = None
    /\ pc = "idle"
    /\ encoded = None
    /\ decoded = None
    /\ reencoded = None
    /\ adapted = None

Init == IdleCodec /\ InitBot

\* The state after a handler: the store, and the record of the update with
\* the message the handler sent or edited (none when it raised).
Handled(kind, sender, data, d) ==
    /\ users' = d.users
    /\ event' = [kind |-> kind, from |-> sender.id, data |-> data,
                 handler |-> d.handler, ids |-> d.ids, exc |-> d.exc,
                 method |-> d.method, template |-> d.template,
                 args |-> d.args, buttons |-> d.buttons, media |-> d.media,
                 invoked |-> d.invoked, provider |-> d.provider]
    /\ UNCHANGED <<lastfm, flights>>
    /\ UNCHANGED codecVars

\* /set [username]: lastfm_username_set. LastfmClient.get_user returns a
\* pylast User object for any name, so set_lastfm_username always stores.
LastfmUsernameSet(sender, args, U) ==
    IF args = <<>>
    THEN Did("lastfm_username_set", {}, U, "None", "reply_text",
             Rendered("provide_username", <<>>, <<>>, "None"))
    ELSE Did("lastfm_username_set", {sender.id},
             CreateOrUpdateUser(U, sender.id, sender.username, args[1]),
             "None", "reply_text",
             Rendered("lastfm_username_set", <<args[1]>>, <<>>, "None"))

SetCommand ==
    \E sender \in TelegramUsers : \E args \in SetArgs(sender) :
        Handled("set", sender, args, LastfmUsernameSet(sender, args, users))

\* /np
NowPlayingCommand ==
    \E sender \in TelegramUsers :
        Handled("np", sender, <<>>,
                NowPlaying("now_playing", FALSE, sender, FALSE, None, users,
                           lastfm))

\* /status
StatusCommand ==
    \E sender \in TelegramUsers :
        Handled("status", sender, <<>>,
                Status("status", FALSE, sender, FALSE, None, users, lastfm))

\* /tops [entity] [period]
TopsCommand ==
    \E sender \in TelegramUsers, args \in TopsArgs :
        Handled("tops", sender, args,
                Tops("tops", FALSE, sender, None, "None", "None", args, users,
                     lastfm))

\* /preferences
PreferencesCommand ==
    \E sender \in TelegramUsers :
        LET r == BuildPreferencesResponse(sender.id)
        IN  Handled("preferences", sender, <<>>,
                    Did("preferences", {}, users, r.exc,
                        IF r.exc = "None" THEN "reply_html" ELSE "None", r))

\* The callback_data of the buttons of the message sent last.
OfferedTokens ==
    IF event.exc = "None"
    THEN {event.buttons[i] : i \in 1..Len(event.buttons)}
    ELSE {}

\* A press of a button of the latest message, or of an older one, by anyone
\* in the chat: button_handler
ButtonPress ==
    \E sender \in TelegramUsers :
        \E data \in OfferedTokens \cup StaleTokens :
            Handled("button", sender, data,
                    ButtonHandler(sender, data, users, lastfm))

\* The account's listening changes at Last.fm.
Scrobble ==
    \E n \in LastfmNames, l \in Listening :
        /\ lastfm[n] # l
        /\ lastfm' = [lastfm EXCEPT ![n] = l]
        /\ UNCHANGED <<users, event, flights>>
        /\ UNCHANGED codecVars

Next ==
    \/ SetCommand
    \/ NowPlayingCommand
    \/ StatusCommand
    \/ TopsCommand
    \/ PreferencesCommand
    \/ ButtonPress
    \/ Scrobble

Spec == Init /\ [][Next]_vars

-----------------------------------------------------------------------------
(* Replays: tokens issued once are pressed again and again, by anyone,     *)
(* while users link, re-link to another account and unlink in between.     *)

\* Tokens of messages still in the chat: for either user, for owner 0, and
\* tokens carrying an entity or a period their action has no use for.
ReplayTokens ==
    {Token(<<"n", "l">>, <<"7">>, <<>>, <<>>),
     Token(<<"n", "l">>, <<"7">>, <<"a">>, <<>>),
     Token(<<"n", "l">>, <<"0">>, <<"a">>, <<"w">>),
     Token(<<"n", "c">>, <<"4", "2">>, <<>>, <<>>),
     Token(<<"n", "c">>, <<"4", "2">>, <<"a">>, <<"w">>),
     Token(<<"n", "m">>, <<"7">>, <<>>, <<>>),
     Token(<<"n", "m">>, <<"7">>, <<>>, <<"w">>),
     Token(<<"p", "u">>, <<"7">>, <<>>, <<>>),
     Token(<<"p", "u">>, <<"4", "2">>, <<"t">>, <<>>),
     Token(<<"p", "u">>, <<"0">>, <<>>, <<"o">>)}

\* /set username, with any of the accounts
RelinkCommand ==
    \E sender \in TelegramUsers, name \in LastfmNames :
        Handled("set", sender, <<name>>,
                LastfmUsernameSet(sender, <<name>>, users))

\* A press of a button of some message of the chat: button_handler
ReplayPress ==
    \E sender \in TelegramUsers, data \in ReplayTokens :
        Handled("button", sender, data,
                ButtonHandler(sender, data, users, lastfm))

NextReplay ==
    \/ RelinkCommand
    \/ ReplayPress
    \/ Scrobble

SpecReplay == Init /\ [][NextReplay]_vars

-----------------------------------------------------------------------------
(* Two button presses handled at once. A handler gives way to another at   *)
(* its awaits only: at query.answer() and at the call that sends or edits  *)
(* the message. Decoding, routing, the reads and writes of the store and   *)
(* the building of the response lie between the two and run in one piece:  *)
(* db and the Last.fm client are called synchronously and the view         *)
(* builders contain no await.                                              *)

\* Tokens of buttons in the chat, for the owners 0, 7 and 42.
PairTokens ==
    {Token(<<"p", "u">>, <<"7">>, <<>>, <<>>),
     Token(<<"p", "u">>, <<"0">>, <<>>, <<>>),
     Token(<<"p", "u">>, <<"4", "2">>, <<>>, <<>>),
     Token(<<"n", "l">>, <<"7">>, <<>>, <<>>),
     Token(<<"n", "l">>, <<"4", "2">>, <<>>, <<>>)}

\* A press waiting in `await query.answer()`; users_at_dispatch is the
\* store when the pair was dispatched.
Flight(sender, data, U) ==
    [pc |-> "answer", sender |-> sender, data |-> data,
     users_at_dispatch |-> U, users_before |-> U, out |-> None]

InitConcurrent ==
    /\ IdleCodec
    /\ users = {}
    /\ lastfm \in {[n \in LastfmNames |-> l] : l \in {"silent", "playing"}}
    /\ event = [kind |-> "start", exc |-> "None", buttons |-> <<>>]
    /\ flights = <<>>

\* /set while no press is being handled
SetWhileIdle == flights = <<>> /\ SetCommand

\* Two presses arrive and both handlers start.
Arrive ==
    /\ flights = <<>>
    /\ \E s1 \in TelegramUsers, s2 \in TelegramUsers :
         \E d1 \in PairTokens, d2 \in PairTokens :
            flights' = <<Flight(s1, d1, users), Flight(s2, d2, users)>>
    /\ UNCHANGED <<users, lastfm, event>>
    /\ UNCHANGED codecVars

\* button_handler from the return of query.answer() to the await of the
\* send, or to its end when nothing is sent.
Resume ==
    \E i \in DOMAIN flights :
        /\ flights[i].pc = "answer"
        /\ \E out \in {ButtonHandler(flights[i].sender, flights[i].data,
                                      users, lastfm)} :
              /\ users' = out.users
              /\ flights' =
                    [flights EXCEPT
                        ![i] = [@ EXCEPT
                                  !.pc = IF out.method = "None" THEN "done"
                                         ELSE "send",
                                  !.users_before = users,
                                  !.out = out]]
        /\ UNCHANGED <<lastfm, event>>
        /\ UNCHANGED codecVars

\* The send or edit returns and the handler ends.
Deliver ==
    \E i \in DOMAIN flights :
        /\ flights[i].pc = "send"
        /\ flights' = [flights EXCEPT ![i] = [@ EXCEPT !.pc = "done"]]
        /\ UNCHANGED <<users, lastfm, event>>
        /\ UNCHANGED codecVars

\* Both handlers have ended.
Retire ==
    /\ flights # <<>>
    /\ \A i \in DOMAIN flights : flights[i].pc = "done"
    /\ flights' = <<>>
    /\ UNCHANGED <<users, lastfm, event>>
    /\ UNCHANGED codecVars

NextConcurrent ==
    \/ SetWhileIdle
    \/ Arrive
    \/ Resume
    \/ Deliver
    \/ Retire

SpecConcurrent == InitConcurrent /\ [][NextConcurrent]_vars

-----------------------------------------------------------------------------
(* The codec exercised alone: encode a request, decode the token and       *)
(* encode what came back; or decode a given string and encode what came    *)
(* back.                                                                   *)

InitCodec ==
    /\ input \in InputsOf(MaxParts)
    /\ pc = "start"
    /\ encoded = None
    /\ decoded = None
    /\ reencoded = None
    /\ adapted = None
    /\ InitBot

EncodeStep ==
    /\ pc = "start"
    /\ input.kind = "request"
    /\ encoded' = Encode(input.cb)
    /\ pc' = "encoded"
    /\ UNCHANGED <<input, decoded, reencoded, adapted>>
    /\ UNCHANGED botVars

DecodeStep ==
    /\ \/ /\ pc = "start"
          /\ input.kind = "token"
          /\ decoded' = Decode(input.data)
       \/ /\ pc = "encoded"
          /\ encoded.kind = "str"
          /\ decoded' = Decode(encoded.v)
    /\ pc' = "decoded"
    /\ UNCHANGED <<input, encoded, reencoded, adapted>>
    /\ UNCHANGED botVars

\* Callback.encode of the request decode returned, as the view builders do
\* with the fields of the request they were handed.
ReEncodeStep ==
    /\ pc = "decoded"
    /\ decoded.kind = "Callback"
    /\ reencoded' = Encode(decoded)
    /\ pc' = "reencoded"
    /\ UNCHANGED <<input, encoded, decoded, adapted>>
    /\ UNCHANGED botVars

\* to_lastfm_entity and to_lastfm_period of a request and the converse
\* adapters on their results; or entity_from_lastfm and period_from_lastfm
\* of the provider's members and the converse adapters on a request made of
\* their results.
AdaptStep ==
    /\ pc = "start"
    /\ \/ /\ input.kind = "wire"
          /\ adapted' =
                LET x == ToLastfmEntity(input.cb)
                    q == ToLastfmPeriod(input.cb)
                IN  [there |-> [entity_type |-> x, period |-> q],
                     back |-> [entity |-> EntityFromLastfm(x),
                               period |-> PeriodFromLastfm(q)]]
       \/ /\ input.kind = "provider"
          /\ adapted' =
                LET e == EntityFromLastfm(input.entity_type)
                    p == PeriodFromLastfm(input.period)
                    cb == Callback("TOPS", IntOf(<<4, 2>>),
                                   IF e.kind = "ok" THEN e.v ELSE "None",
                                   IF p.kind = "ok" THEN p.v ELSE "None")
                IN  [there |-> [entity |-> e, period |-> p],
                     back |-> [entity_type |-> ToLastfmEntity(cb),
                               period |-> ToLastfmPeriod(cb)]]
    /\ pc' = "adapted"
    /\ UNCHANGED <<input, encoded, decoded, reencoded>>
    /\ UNCHANGED botVars

NextCodec == EncodeStep \/ DecodeStep \/ ReEncodeStep \/ AdaptStep

SpecCodec == InitCodec /\ [][NextCodec]_vars

-----------------------------------------------------------------------------
(* Properties of the codec, checked under SpecCodec.                       *)

IsRequest == input.kind = "request"
IsToken == input.kind = "token"

\* Number of separators in a string; the string has one part more.
CountSep(s) == Cardinality({i \in 1..Len(s) : s[i] = "|"})

ActionCodes == {<<"n", "l">>, <<"n", "c">>, <<"n", "m">>, <<"p", "u">>, <<"t">>}
EntityCodes == {<<"a">>, <<"b">>, <<"t">>}
PeriodCodes == {<<"w">>, <<"1">>, <<"3">>, <<"6">>, <<"y">>, <<"o">>}

\* C1: a request with a non-negative owner_id that encode accepts comes back
\* from decode(encode(r)) equal to r in every field; an absent entity or
\* period comes back absent.
RoundTrip ==
    (pc = "decoded" /\ IsRequest /\ ~input.cb.owner_id.neg)
        => decoded = input.cb

RoundTripWitness ==
    /\ pc = "decoded"
    /\ IsRequest
    /\ input.cb = Callback("TOPS", MaxBigInt, "None", "WEEK")
    /\ decoded.kind = "Callback"
    /\ decoded.entity = "None"
    /\ decoded.period = "WEEK"

\* C4: decode of any string returns a Callback or None; no exception
\* leaves it.
TotalDecode ==
    pc = "decoded" => decoded.kind \in {"Callback", "None"}

TotalDecodeWitness ==
    /\ pc = "decoded"
    /\ IsToken
    /\ input.data = <<"1", "|", "x", "|", "a", "b", "c", "|", "z", "|", "q">>
    /\ DecodeTry(input.data) = Raise("ValueError")
    /\ decoded = None

\* C5: encode never returns a token of more than 64 bytes, and raises when
\* the five joined parts are longer than 64 bytes.
EncodeCeiling ==
    (pc # "start" /\ IsRequest)
        => /\ encoded.kind = "str" => Utf8Len(encoded.v) <= 64
           /\ Utf8Len(Serialized(input.cb)) > 64 => encoded.kind = "Raise"

EncodeCeilingWitness ==
    /\ pc = "encoded"
    /\ IsRequest
    /\ input.cb = Callback("NP_LESS", PowerOfTen(56), "ARTIST", "WEEK")
    /\ Utf8Len(Serialized(input.cb)) = 65
    /\ encoded = Raise("AssertionError")

\* C6: for every action, entity and period and every owner_id with
\* 0 <= owner_id < 2^63, encode returns a token of at most 64 bytes.
SizeBound ==
    (/\ pc # "start"
     /\ IsRequest
     /\ ~IntLess(input.cb.owner_id, Zero)
     /\ IntLess(input.cb.owner_id, TwoTo63))
        => /\ encoded.kind = "str"
           /\ Utf8Len(encoded.v) <= 64

SizeBoundWitness ==
    /\ pc = "encoded"
    /\ IsRequest
    /\ input.cb = Callback("NP_LESS_COVER", MaxBigInt, "ALBUM", "MONTH_3")
    /\ encoded.kind = "str"
    /\ Utf8Len(encoded.v) = 28

\* C7: a token that differs from a token decode accepts only in its first
\* field, which is not "1", decodes to None.
VersionGating ==
    (pc = "decoded" /\ IsToken)
        => LET parts == Split(input.data)
           IN  (/\ parts[1] # <<"1">>
                /\ Decode(Join([parts EXCEPT ![1] = <<"1">>])).kind = "Callback")
                   => decoded = None

VersionGatingWitness ==
    /\ pc = "decoded"
    /\ IsToken
    /\ input.data = <<"2", "|", "t", "|", "4", "2", "|", "a", "|", "w">>
    /\ decoded = None

\* C8: a token whose action field is no Action code, or whose non-empty 4th
\* field is no Entity code, or whose non-empty 5th field is no Period code,
\* decodes to None.
UnknownCodeRejection ==
    (pc = "decoded" /\ IsToken)
        => LET parts == Split(input.data)
           IN  (\/ Len(parts) >= 2 /\ parts[2] \notin ActionCodes
                \/ Len(parts) >= 4 /\ parts[4] # <<>> /\ parts[4] \notin EntityCodes
                \/ Len(parts) >= 5 /\ parts[5] # <<>> /\ parts[5] \notin PeriodCodes)
                   => decoded = None

UnknownCodeRejectionWitness ==
    /\ pc = "decoded"
    /\ IsToken
    /\ input.data = <<"1", "|", "t", "|", "4", "2", "|", "z", "|", "w">>
    /\ decoded = None

\* C9: a string with fewer than two separators, so with fewer than three
\* parts, decodes to None; the empty string is one of them.
MinFieldCount ==
    (pc = "decoded" /\ IsToken /\ CountSep(input.data) < 2) => decoded = None

MinFieldCountWitness ==
    /\ pc = "decoded"
    /\ IsToken
    /\ input.data = <<>>
    /\ decoded = None

\* C10: in a token with version "1", an Action code and an owner field int()
\* accepts, decode fails only on a non-empty 4th or 5th field that is no
\* code; otherwise the entity is None exactly when the 4th part is missing
\* or empty and the period is None exactly when the 5th part is missing or
\* empty.
IndependentOptionals ==
    (pc = "decoded" /\ IsToken)
        => LET parts == Split(input.data)
               noEntity == Len(parts) < 4 \/ parts[4] = <<>>
               noPeriod == Len(parts) < 5 \/ parts[5] = <<>>
           IN  (/\ Len(parts) >= 3
                /\ parts[1] = <<"1">>
                /\ parts[2] \in ActionCodes
                /\ PyInt(parts[3]).kind = "ok")
                   => /\ decoded = None
                         <=> \/ ~noEntity /\ parts[4] \notin EntityCodes
                             \/ ~noPeriod /\ parts[5] \notin PeriodCodes
                      /\ decoded.kind = "Callback"
                         => /\ decoded.entity = "None" <=> noEntity
                            /\ decoded.period = "None" <=> noPeriod

IndependentOptionalsWitness ==
    /\ pc = "decoded"
    /\ IsToken
    /\ input.data = <<"1", "|", "t", "|", "4", "2", "|", "|", "w">>
    /\ decoded.kind = "Callback"
    /\ decoded.entity = "None"
    /\ decoded.period = "WEEK"

\* Parts appended after the 5th field of a token: one or two of them, empty,
\* an unknown word or a Period code.
ExtraParts == ExtraPool \cup {<<"w">>}
ExtraTails ==
    {<<x>> : x \in ExtraParts} \cup {<<x, y>> : x \in ExtraParts, y \in ExtraParts}

\* C11: a token of five or more parts that decodes to a request decodes to
\* the same request as its first five parts alone, and still decodes to it
\* with one or two more parts appended.
ExtraFieldCompat ==
    (pc = "decoded" /\ IsToken /\ decoded.kind = "Callback")
        => LET parts == Split(input.data)
           IN  Len(parts) >= 5
                   => /\ Decode(Join(SubSeq(parts, 1, 5))) = decoded
                      /\ \A tail \in ExtraTails :
                            Decode(input.data \o <<"|">> \o Join(tail)) = decoded

ExtraFieldCompatWitness ==
    /\ pc = "decoded"
    /\ IsToken
    /\ input.data = <<"1", "|", "n", "l", "|", "4", "2", "|", "|", "|",
                      "e", "x", "t", "r", "a">>
    /\ decoded = Callback("NP_LESS", IntOf(<<4, 2>>), "None", "None")

\* C20: a token encode returns has exactly five parts: "1", the action's
\* code, the owner_id in decimal (for owner_id >= 0: ASCII digits only, no
\* sign, no leading zero), the entity's code or nothing, the period's code
\* or nothing; (TOPS, 123456789, ARTIST, WEEK) gives "1|t|123456789|a|w" and
\* (NP_LESS, 42, None, None) gives "1|nl|42||".
WireFormat ==
    (pc # "start" /\ IsRequest /\ encoded.kind = "str")
        => LET parts == Split(encoded.v)
               cb == input.cb
           IN  /\ Len(parts) = 5
               /\ parts[1] = <<"1">>
               /\ parts[2] = ActionValue(cb.action)
               /\ ~cb.owner_id.neg
                    => /\ \A i \in 1..Len(parts[3]) : parts[3][i] \in AsciiDigit
                       /\ Len(parts[3]) > 1 => parts[3][1] # "0"
                       /\ [i \in 1..Len(parts[3]) |-> DigitValue(parts[3][i])]
                            = cb.owner_id.digits
               /\ parts[4] = IF cb.entity = "None" THEN <<>>
                             ELSE EntityValue(cb.entity)
               /\ parts[5] = IF cb.period = "None" THEN <<>>
                             ELSE PeriodValue(cb.period)
               /\ cb = Callback("TOPS", IntOf(<<1, 2, 3, 4, 5, 6, 7, 8, 9>>),
                                "ARTIST", "WEEK")
                    => encoded.v = <<"1", "|", "t", "|", "1", "2", "3", "4", "5",
                                     "6", "7", "8", "9", "|", "a", "|", "w">>
               /\ cb = Callback("NP_LESS", IntOf(<<4, 2>>), "None", "None")
                    => encoded.v = <<"1", "|", "n", "l", "|", "4", "2", "|", "|">>

WireFormatWitness ==
    /\ pc = "encoded"
    /\ IsRequest
    /\ input.cb = Callback("NP_LESS", IntOf(<<4, 2>>), "None", "None")
    /\ encoded.kind = "str"
    /\ Split(encoded.v) = <<<<"1">>, <<"n", "l">>, <<"4", "2">>, <<>>, <<>> >>

\* C21: every token encode returns is accepted by decode, and encode of the
\* request decode returns gives back exactly that token.
TokenRoundTrip ==
    /\ (pc \in {"decoded", "reencoded"} /\ IsRequest)
          => decoded.kind = "Callback"
    /\ (pc = "reencoded" /\ IsRequest)
          => /\ reencoded.kind = "str"
             /\ reencoded.v = encoded.v

TokenRoundTripWitness ==
    /\ pc = "reencoded"
    /\ IsRequest
    /\ input.cb = Callback("NP_MORE", MaxBigInt, "TRACK", "None")
    /\ encoded.kind = "str"
    /\ reencoded = encoded

\* C29 as stated: the request decode returns for any token of at most 64
\* bytes is encoded again without error.
AcceptedReEncodable ==
    (pc = "reencoded" /\ IsToken /\ Utf8Len(input.data) <= CEILING)
        => reencoded.kind = "str"

\* C29: the request decode returns for a token of at most 64 bytes that has
\* at least five parts is encoded again without error, to a token no longer
\* than the one decoded.
FiveFieldReEncodable ==
    (/\ pc = "reencoded"
     /\ IsToken
     /\ Utf8Len(input.data) <= CEILING
     /\ CountSep(input.data) >= 4)
        => /\ reencoded.kind = "str"
           /\ Utf8Len(reencoded.v) <= Utf8Len(input.data)

FiveFieldReEncodableWitness ==
    /\ pc = "reencoded"
    /\ IsToken
    /\ input.data =
           Join(<<VERSION, <<"t">>, PyStr(PowerOfTen(56)), <<"a">>, <<"w">> >>)
    /\ Utf8Len(input.data) = CEILING
    /\ reencoded.kind = "str"
    /\ reencoded.v = input.data

\* C26 as stated: no request decode returns has a negative owner_id.
NonNegativeOwner ==
    (pc = "decoded" /\ IsToken /\ decoded.kind = "Callback")
        => ~decoded.owner_id.neg

\* A request with the given entity and period, for the adapters.
Wire(e, p) == Callback("TOPS", IntOf(<<4, 2>>), e, p)

\* C19: each adapter maps every member of its enumeration to a member of the
\* other one, never to None; the adapter of the other direction maps the
\* result back to the member; so each adapter is one-to-one and onto.
AdapterBijection ==
    /\ (pc = "adapted" /\ input.kind = "wire")
          => /\ input.cb.entity # "None"
                  => /\ adapted.there.entity_type \in EntityType
                     /\ adapted.back.entity = [kind |-> "ok", v |-> input.cb.entity]
             /\ input.cb.period # "None"
                  => /\ adapted.there.period \in LastfmPeriod
                     /\ adapted.back.period = [kind |-> "ok", v |-> input.cb.period]
    /\ (pc = "adapted" /\ input.kind = "provider")
          => /\ adapted.there.entity.kind = "ok"
             /\ adapted.there.entity.v \in Entity
             /\ adapted.back.entity_type = input.entity_type
             /\ adapted.there.period.kind = "ok"
             /\ adapted.there.period.v \in Period
             /\ adapted.back.period = input.period
    /\ {ToLastfmEntity(Wire(e, "None")) : e \in Entity} = EntityType
    /\ {ToLastfmPeriod(Wire("None", p)) : p \in Period} = LastfmPeriod
    /\ Cardinality(EntityType) = Cardinality(Entity)
    /\ Cardinality(LastfmPeriod) = Cardinality(Period)

AdapterBijectionWitness ==
    /\ pc = "adapted"
    /\ input.kind = "wire"
    /\ input.cb.entity = "TRACK"
    /\ input.cb.period = "MONTH_6"
    /\ adapted.there = [entity_type |-> "track", period |-> "6month"]
    /\ adapted.back.period = [kind |-> "ok", v |-> "MONTH_6"]

-----------------------------------------------------------------------------
(* Properties of the dispatch, checked under Spec.                         *)

\* C2: when a token that decodes to unlink-account with a non-negative
\* owner_id A is pressed by a user other than A, the store afterwards is the
\* store before without A's row; every other row is as it was.
UnlinkOwnerIndependence ==
    [][(/\ event'.kind = "button"
        /\ Decode(event'.data).kind = "Callback"
        /\ Decode(event'.data).action = "PREF_UNLINK"
        /\ ~Decode(event'.data).owner_id.neg
        /\ event'.from # Decode(event'.data).owner_id)
          => users' = {r \in users :
                          r.telegram_id # Decode(event'.data).owner_id}]_vars

\* C3: for a token that decodes with a non-negative owner_id, the dispatch
\* hands only the token's owner_id to the store and, whoever presses, ends
\* the same way with the same message and the same tokens.
PresserNonInterference ==
    \A data \in OfferedTokens \cup StaleTokens :
        \A p1 \in TelegramUsers, p2 \in TelegramUsers :
            LET cb == Decode(data)
                d1 == ButtonHandler(p1, data, users, lastfm)
                d2 == ButtonHandler(p2, data, users, lastfm)
            IN  (cb.kind = "Callback" /\ ~cb.owner_id.neg)
                    => /\ d1.ids \subseteq {cb.owner_id}
                       /\ d1.ids = d2.ids
                       /\ d1.exc = d2.exc
                       /\ d1.method = d2.method
                       /\ d1.template = d2.template
                       /\ d1.args = d2.args
                       /\ d1.buttons = d2.buttons
                       /\ d1.media = d2.media

\* C12: a button press whose callback data decode rejects invokes no entry
\* of the routing table, leaves the store as it was, and neither sends nor
\* edits a message.
DispatchOnDecodeFailure ==
    [][(event'.kind = "button" /\ Decode(event'.data) = None)
          => /\ event'.invoked = <<>>
             /\ event'.handler = "None"
             /\ users' = users
             /\ event'.ids = {}
             /\ event'.method = "None"
             /\ event'.template = "None"
             /\ event'.exc = "None"]_vars

DispatchOnDecodeFailureWitness ==
    /\ event.kind = "button"
    /\ event.data = <<"1", "|", "p", "u", "|", "a", "b", "c">>
    /\ Decode(event.data) = None
    /\ event.from = Ann.id
    /\ GetUser(users, Ann.id) # None
    /\ event.method = "None"

\* C14: a button press whose callback data decodes to a request r with an
\* entry in the routing table invokes that entry, once, with r, and no other
\* entry.
DispatchOnSuccess ==
    (event.kind = "button" /\ Decode(event.data).kind = "Callback")
        => LET r == Decode(event.data)
           IN  r.action \in DOMAIN CALLBACK_ROUTES
                   => /\ Len(event.invoked) = 1
                      /\ event.invoked[1].handler = CALLBACK_ROUTES[r.action]
                      /\ event.invoked[1].cb = r
                      /\ event.handler = CALLBACK_ROUTES[r.action]

DispatchOnSuccessWitness ==
    /\ event.kind = "button"
    /\ event.data = <<"1", "|", "n", "c", "|", "7", "|", "|">>
    /\ event.invoked =
          <<[handler |-> "_handle_np_less_cover",
             cb |-> Callback("NP_LESS_COVER", IntOf(<<7>>), "None", "None")]>>
    /\ event.method = "edit_media"

\* The templates that end the chart flow: the chart, the notice that the
\* account has no top items, the notice that no profile is linked.
FinalChartTemplates ==
    {"tops_list", "tops_no_available_response", "user_not_found"}

\* C15: a button press that decodes to a show-top-chart request renders the
\* choose-entity step when the entity is absent, the choose-period step when
\* the entity is present and the period absent, and a final response with no
\* buttons when both are present; Last.fm is asked for top items in the last
\* case only.
ChartFlowStepSelection ==
    (/\ event.kind = "button"
     /\ Decode(event.data).kind = "Callback"
     /\ Decode(event.data).action = "TOPS")
        => LET r == Decode(event.data)
           IN  /\ r.entity = "None"
                    => /\ event.template = "tops_choose_entity_type"
                       /\ event.provider = {}
               /\ (r.entity # "None" /\ r.period = "None")
                    => /\ event.template = "tops_choose_period"
                       /\ event.provider = {}
               /\ (r.entity # "None" /\ r.period # "None")
                    => /\ event.exc = "None"
                       /\ event.template \in FinalChartTemplates
                       /\ event.buttons = <<>>

\* The requests whose handler reads the owner's profile.
ReadsProfile(r) ==
    \/ r.action \in {"NP_LESS", "NP_LESS_COVER", "NP_MORE"}
    \/ r.action = "TOPS" /\ r.entity # "None" /\ r.period # "None"

\* C17: a button press that decodes to a request which reads the owner's
\* profile, made while the store has no row for the owner_id, ends without
\* an exception and with the 'no profile linked' message.
GracefulNoProfile ==
    [][(/\ event'.kind = "button"
        /\ Decode(event'.data).kind = "Callback"
        /\ ReadsProfile(Decode(event'.data))
        /\ GetUser(users, Decode(event'.data).owner_id) = None)
          => /\ event'.exc = "None"
             /\ event'.template = "user_not_found"]_vars

\* C18: pressing an unlink-account token a second time, whoever presses,
\* leaves the store as the first press left it: without the owner's row and
\* with every other row as before; neither press ends in an exception.
UnlinkIdempotent ==
    \A data \in OfferedTokens \cup StaleTokens :
        \A p1 \in TelegramUsers, p2 \in TelegramUsers :
            LET cb == Decode(data)
                once == ButtonHandler(p1, data, users, lastfm)
                twice == ButtonHandler(p2, data, once.users, lastfm)
            IN  (cb.kind = "Callback" /\ cb.action = "PREF_UNLINK")
                    => /\ once.exc = "None"
                       /\ twice.exc = "None"
                       /\ once.users = {u \in users : u.telegram_id # cb.owner_id}
                       /\ twice.users = once.users

\* The owner and the entity of the chart step shown last: those of the token
\* pressed, or the sender and the first argument of /tops.
StepOwner ==
    IF event.kind = "button" THEN Decode(event.data).owner_id ELSE event.from

StepEntity ==
    IF event.kind = "button" THEN Decode(event.data).entity
    ELSE EntityFromLastfm(ParseTopsArgs(event.data).entity_type).v

\* The requests the buttons of the message sent last decode to.
OfferedRequests == {Decode(event.buttons[i]) : i \in 1..Len(event.buttons)}

\* C16: the choose-entity step for owner o has one button per Entity member,
\* whose tokens decode to (TOPS, o, that entity, no period); the
\* choose-period step for owner o and entity e has one button per Period
\* member, whose tokens decode to (TOPS, o, e, that period).
ChartFlowNextChoices ==
    event.kind \in {"button", "tops"}
        => /\ event.template = "tops_choose_entity_type"
                => /\ Len(event.buttons) = Cardinality(Entity)
                   /\ OfferedRequests =
                        {Callback("TOPS", StepOwner, e, "None") : e \in Entity}
           /\ event.template = "tops_choose_period"
                => /\ Len(event.buttons) = Cardinality(Period)
                   /\ OfferedRequests =
                        {Callback("TOPS", StepOwner, StepEntity, p) : p \in Period}

ChartFlowNextChoicesWitness ==
    /\ event.kind = "button"
    /\ event.from = Ann.id
    /\ event.data = <<"1", "|", "t", "|", "4", "2", "|", "b", "|">>
    /\ event.template = "tops_choose_period"
    /\ event.buttons[5] = <<"1", "|", "t", "|", "4", "2", "|", "b", "|", "y">>

\* C27: every member of Action has an entry in CALLBACK_ROUTES, so a button
\* press whose callback data decodes to a request always finds a handler and
\* calls it.
RoutingExhaustive ==
    /\ \A a \in Action : RouteOf(a) # "None"
    /\ (event.kind = "button" /\ Decode(event.data).kind = "Callback")
          => /\ event.handler # "None"
             /\ event.invoked # <<>>

RoutingExhaustiveWitness ==
    /\ event.kind = "button"
    /\ event.data = <<"1", "|", "p", "u", "|", "7", "|", "|">>
    /\ event.from = Bob.id
    /\ event.handler = "_handle_pref_unlink"
    /\ event.template = "preferences_unlink_account"

\* C28: every button of a message rendered for a press whose token carries
\* owner_id o (o >= 0) carries a token that decodes to owner_id o, whoever
\* pressed; so a press of one of those buttons is again a request for o.
OwnerPropagation ==
    [][(/\ event'.kind = "button"
        /\ Decode(event'.data).kind = "Callback"
        /\ ~Decode(event'.data).owner_id.neg)
          => LET o == Decode(event'.data).owner_id
             IN  /\ \A i \in 1..Len(event'.buttons) :
                       /\ Decode(event'.buttons[i]).kind = "Callback"
                       /\ Decode(event'.buttons[i]).owner_id = o
                 /\ (/\ event.kind = "button"
                     /\ Decode(event.data).kind = "Callback"
                     /\ event'.data \in OfferedTokens)
                       => o = Decode(event.data).owner_id]_vars

OwnerPropagationWitness ==
    /\ event.kind = "button"
    /\ event.from = Ann.id
    /\ event.data = <<"1", "|", "t", "|", "4", "2", "|", "b", "|">>
    /\ event.exc = "None"
    /\ Len(event.buttons) = 6
    /\ \A i \in 1..Len(event.buttons) :
          Decode(event.buttons[i]).owner_id = Bob.id

\* The actions of the now-playing views.
NowPlayingActions == {"NP_LESS", "NP_LESS_COVER", "NP_MORE"}

\* C30 as stated: a press of a now-playing button renders the 'no Last.fm
\* set for your user' response only when the store has no row for the
\* token's owner_id; with a row and nothing playing and no recent track at
\* Last.fm, it renders a response that names the linked username.
NoProfileOnlyWithoutProfile ==
    [][(/\ event'.kind = "button"
        /\ lastfm' = lastfm
        /\ Decode(event'.data).kind = "Callback"
        /\ Decode(event'.data).action \in NowPlayingActions)
          => LET user == GetUser(users, Decode(event'.data).owner_id)
             IN  /\ event'.template = "user_not_found" => user = None
                 /\ (user # None /\ lastfm[user.lastfm_username] = "silent")
                       => /\ event'.exc = "None"
                          /\ event'.template # "user_not_found"
                          /\ event'.args # <<>>
                          /\ event'.args[1] = user.lastfm_username]_vars

\* The templates of the two steps of the chart flow that offer buttons.
ChoiceTemplates == {"tops_choose_entity_type", "tops_choose_period"}

-----------------------------------------------------------------------------
(* Properties of replayed tokens, checked under SpecReplay.                *)

\* C23: a token is handled against the store as it is when it is pressed:
\* a now-playing token for owner A renders the no-profile response while A
\* has no row, and A's data for the username of A's row at that moment
\* once A has linked or re-linked; an unlink token removes A's row of that
\* moment.
ReplayActsOnCurrentData ==
    [][(/\ event'.kind = "button"
        /\ Decode(event'.data).kind = "Callback")
          => LET r == Decode(event'.data)
                 user == GetUser(users, r.owner_id)
             IN  /\ (r.action \in {"NP_LESS", "NP_LESS_COVER"}
                        /\ event'.exc = "None")
                       => /\ users' = users
                          /\ IF user = None
                             THEN event'.template = "user_not_found"
                             ELSE /\ event'.template \in
                                       {"now_playing",
                                        "now_playing_no_currently_playing"}
                                  /\ event'.args[1] = user.lastfm_username
                 /\ (r.action \in {"NP_LESS", "NP_LESS_COVER"} /\ user # None)
                       => event'.exc = "None"
                 /\ (r.action = "PREF_UNLINK" /\ TruthyInt(r.owner_id))
                       => users' = users \ {user}]_vars

\* Ann's now-playing token pressed by Bob after Ann re-linked to rj.
ReplayActsOnCurrentDataWitness ==
    /\ event.kind = "button"
    /\ event.from = Bob.id
    /\ event.data = <<"1", "|", "n", "l", "|", "7", "|", "|">>
    /\ GetUser(users, Ann.id) # None
    /\ GetUser(users, Ann.id).telegram_username = TupleStr("ann")
    /\ GetUser(users, Ann.id).lastfm_username = "rj"
    /\ event.template = "now_playing"
    /\ event.args = <<"rj", "rj">>

\* The user with the given id.
Presser(id) == CHOOSE u \in TelegramUsers : u.id = id

\* The token of the same action and owner with entity and period absent.
Bare(r) == Token(ActionValue(r.action), PyStr(r.owner_id), <<>>, <<>>)

\* C25: a press of an np-collapse, np-collapse-with-cover, np-expand or
\* unlink-account token that carries an entity or a period changes the
\* store and renders the response as the press of the token without them.
ChartParamsIgnored ==
    [][(/\ event'.kind = "button"
        /\ lastfm' = lastfm
        /\ Decode(event'.data).kind = "Callback"
        /\ Decode(event'.data).action # "TOPS")
          => \A bare \in {ButtonHandler(Presser(event'.from),
                                         Bare(Decode(event'.data)), users,
                                         lastfm)} :
                 /\ users' = bare.users
                 /\ event'.exc = bare.exc
                 /\ event'.method = bare.method
                 /\ event'.template = bare.template
                 /\ event'.args = bare.args
                 /\ event'.buttons = bare.buttons
                 /\ event'.media = bare.media
                 /\ event'.provider = bare.provider]_vars

\* The np-collapse-with-cover token with entity and period, for a linked
\* owner with a track playing: the cover is sent, as without them.
ChartParamsIgnoredWitness ==
    /\ event.kind = "button"
    /\ event.data = <<"1", "|", "n", "c", "|", "4", "2", "|", "a", "|", "w">>
    /\ Decode(event.data).entity = "ARTIST"
    /\ Decode(event.data).period = "WEEK"
    /\ event.method = "edit_media"
    /\ event.template = "now_playing"
    /\ event.media # "None"

-----------------------------------------------------------------------------
(* Properties of presses handled at once, checked under SpecConcurrent.    *)

\* The owner_id of the token of a press.
FlightOwner(f) == Decode(f.data).owner_id

\* C24 as stated: of two presses handled at once whose tokens carry
\* different owners, each removes the rows and renders the response it
\* would have alone on the store as it was when they were dispatched, and
\* neither removes or alters the row of the other's owner.
DispatchIndependence ==
    \A i \in DOMAIN flights : \A j \in DOMAIN flights :
        (/\ i # j
         /\ flights[i].pc \in {"send", "done"}
         /\ FlightOwner(flights[i]) # FlightOwner(flights[j]))
            => \A alone \in {ButtonHandler(flights[i].sender, flights[i].data,
                                           flights[i].users_at_dispatch,
                                           lastfm)} :
                 LET f == flights[i]
                     other == FlightOwner(flights[j])
                 IN  /\ f.users_before \ f.out.users =
                            f.users_at_dispatch \ alone.users
                     /\ f.out.users \subseteq f.users_before
                     /\ f.out.exc = alone.exc
                     /\ f.out.method = alone.method
                     /\ f.out.template = alone.template
                     /\ f.out.args = alone.args
                     /\ f.out.buttons = alone.buttons
                     /\ f.out.media = alone.media
                     /\ GetUser(f.out.users, other) =
                            GetUser(f.users_before, other)

====
